---- MODULE Spec2Model ----
(***************************************************************************)
(* Model of the personal watcher userbot: the keyword rule engine          *)
(* (rules.py), the rule store, and the message handler with its            *)
(* conversational rule-authoring state machine (runner.py).                *)
(*                                                                         *)
(* Texts are sequences of one-character strings, so that trimming, case    *)
(* folding, substring search, regular-expression matching and keyword      *)
(* splitting are computed character by character as the code does.         *)
(* Optional values (Python None) are encoded as sequences: None is <<>>    *)
(* and a present value x is <<x>>.                                         *)
(***************************************************************************)
EXTENDS Integers, Sequences, FiniteSets, TLC

VARIABLES
    rules,            \* RuleSet._rules: the in-memory rule sequence
    chat_cache,       \* RuleSet._chat_ids: the derived chat-scope cache
    rule_file,        \* content of the rule file on disk
    pending_sessions, \* handler's session map: chat id -> PendingRuleSession
    settings,         \* manual_chat_filter, ignore_self_messages, ignore_bot_messages
    ev,               \* the event handled last
    path,             \* the branch of the handler the last event took
    responses,        \* messages sent while handling the last event
    appended,         \* sink append attempts made while handling the last event
    session,          \* the handler's local `session` (line 224) for the last event
    added,            \* number of rules added by authoring so far
    call,             \* the last call of a pure function made on its own, with its result
    suspended         \* handlers waiting at the await of line 248: event and session read

vars == <<rules, chat_cache, rule_file, pending_sessions, settings, ev, path,
          responses, appended, session, added, call, suspended>>

-----------------------------------------------------------------------------
(* Optional values *)

None == <<>>
Some(x) == <<x>>
Val(o) == o[1]

SetMin(S) == CHOOSE x \in S : \A y \in S : x <= y
SetMax(S) == CHOOSE x \in S : \A y \in S : y <= x

-----------------------------------------------------------------------------
(* Text primitives *)

UpperChars == <<"A","B","C","D","E","F","G","H","I","J","K","L","M",
                "N","O","P","Q","R","S","T","U","V","W","X","Y","Z">>
LowerChars == <<"a","b","c","d","e","f","g","h","i","j","k","l","m",
                "n","o","p","q","r","s","t","u","v","w","x","y","z">>

\* what str.strip() removes and what \s matches
Whitespace == {" ", "\t", "\n", "\r", "\f"}

DigitChars == <<"0","1","2","3","4","5","6","7","8","9">>
IsDigit(c) == \E i \in 1..10 : DigitChars[i] = c
DigitVal(c) == (CHOOSE i \in 1..10 : DigitChars[i] = c) - 1

FoldChar(c) ==
    IF \E i \in 1..26 : UpperChars[i] = c
    THEN LowerChars[CHOOSE i \in 1..26 : UpperChars[i] = c]
    ELSE c

\* str.casefold()
casefold(s) == [i \in 1..Len(s) |-> FoldChar(s[i])]

\* str.lower()
lower(s) == [i \in 1..Len(s) |-> FoldChar(s[i])]

\* str.strip()
strip(s) ==
    LET keep == {i \in 1..Len(s) : s[i] \notin Whitespace}
    IN  IF keep = {} THEN <<>> ELSE SubSeq(s, SetMin(keep), SetMax(keep))

\* Python's `needle in hay` on strings
Contains(hay, needle) ==
    \E i \in 0..(Len(hay) - Len(needle)) :
        SubSeq(hay, i + 1, i + Len(needle)) = needle

\* int() of a run of decimal digits
RECURSIVE DigitsToInt(_)
DigitsToInt(ds) ==
    IF ds = <<>> THEN 0
    ELSE 10 * DigitsToInt(SubSeq(ds, 1, Len(ds) - 1)) + DigitVal(ds[Len(ds)])

\* length of the longest run of characters satisfying a class, from position p
RECURSIVE RunLen(_, _, _)
RunLen(s, p, class) ==
    IF p > Len(s) \/ s[p] \notin class THEN 0 ELSE 1 + RunLen(s, p + 1, class)

DigitSet == {DigitChars[i] : i \in 1..10}

WatchWord == <<"!","w","a","t","c","h">>
CancelWord == <<"!","c","a","n","c","e","l">>

\* re.match(r"^!watch\s+(-?\d+)", text, flags=re.IGNORECASE) followed by
\* int(match.group(1)): None when the pattern does not match
StartMatch(text) ==
    IF Len(text) < Len(WatchWord)
       \/ casefold(SubSeq(text, 1, Len(WatchWord))) # WatchWord
    THEN None
    ELSE LET ws   == RunLen(text, Len(WatchWord) + 1, Whitespace)
             p    == Len(WatchWord) + 1 + ws
             neg  == p <= Len(text) /\ text[p] = "-"
             q    == IF neg THEN p + 1 ELSE p
             nd   == RunLen(text, q, DigitSet)
             n    == DigitsToInt(SubSeq(text, q, q + nd - 1))
         IN  IF ws = 0 \/ nd = 0 THEN None
             ELSE Some(IF neg THEN 0 - n ELSE n)

-----------------------------------------------------------------------------
(* Keyword-list parsing *)

Separators == {",", "\n", ";"}

\* re.split(r"[,\n;]+", s): cut at every run of separator characters
RECURSIVE SplitFrom(_, _, _, _)
SplitFrom(s, i, cur, acc) ==
    IF i > Len(s) THEN Append(acc, cur)
    ELSE IF s[i] \in Separators
         THEN IF i > 1 /\ s[i - 1] \in Separators
              THEN SplitFrom(s, i + 1, cur, acc)
              ELSE SplitFrom(s, i + 1, <<>>, Append(acc, cur))
         ELSE SplitFrom(s, i + 1, Append(cur, s[i]), acc)

re_split(s) == SplitFrom(s, 1, <<>>, <<>>)

EmptyWords == { <<"-">>, <<"s","k","i","p">>, <<"n","o","n","e">> }

\* variant: the parts are kept as cut, untrimmed
RECURSIVE StripParts_Untrimmed(_)
StripParts_Untrimmed(parts) ==
    IF parts = <<>> THEN <<>>
    ELSE IF strip(Head(parts)) # <<>>
         THEN <<Head(parts)>> \o StripParts_Untrimmed(Tail(parts))
         ELSE StripParts_Untrimmed(Tail(parts))

RECURSIVE StripParts(_)
StripParts(parts) ==
    IF parts = <<>> THEN <<>>
    ELSE LET p == strip(Head(parts))
         IN  IF p # <<>> THEN <<p>> \o StripParts(Tail(parts))
             ELSE StripParts(Tail(parts))

_parse_keywords(raw) ==
    LET cleaned == strip(raw)
    IN  IF cleaned = <<>> THEN <<>>
        ELSE IF lower(cleaned) \in EmptyWords THEN <<>>
        ELSE StripParts(re_split(cleaned))

-----------------------------------------------------------------------------
(* Bounds and inputs *)

\* at most this many rules are added by authoring in one run
MaxAdded == 1

\* the owner's account id: the chat id of the self-conversation and the
\* sender id of every outgoing message that carries one
OwnerId == 1
\* some other account
OtherId == 2
\* a group chat
GroupChat == 5

T_empty   == <<>>
T_blank   == <<" ">>
T_watch5  == <<"!","w","a","t","c","h"," ","5">>
T_watch7  == <<"!","W","A","T","C","H"," "," ","-","7"," ","x">>
T_cancel  == <<" ","!","C","a","n","c","e","l">>
T_Promo   == <<"P","r","o","m","o">>
T_buynow  == <<"b","u","y"," ","n","o","w">>
T_dash    == <<"-">>
T_BuyNow  == <<"B","u","y"," ","N","o","w","!"," ">>
T_shout   == <<"B","U","Y"," ","N","O","W"," ","p","r","o","m","o">>
T_hello   == <<"h","e","l","l","o">>

\* texts of outgoing (owner) messages and of incoming messages
OwnerTexts == {T_empty, T_blank, T_watch5, T_watch7, T_cancel, T_Promo,
               T_buynow, T_dash}
ChatTexts == {T_BuyNow, T_shout, T_hello, T_cancel}

Event(chat_id, sender_id, out, bot, text) ==
    [chat_id |-> chat_id, sender_id |-> sender_id, out |-> out, bot |-> bot,
     text |-> text]

\* an event: chat id and sender id (either may be None), the outgoing flag,
\* whether the sender entity is known and is a bot, and the raw message text.
\* The owner writing in the self-conversation:
OwnerEvents ==
    {Event(Some(OwnerId), Some(OwnerId), TRUE, FALSE, t) : t \in OwnerTexts}
\* the owner writing in another chat, with or without a sender id:
ElsewhereEvents ==
    {Event(Some(GroupChat), Some(OwnerId), TRUE, FALSE, t) : t \in {T_watch5, T_buynow}}
    \cup {Event(None, None, TRUE, FALSE, T_watch7)}
\* somebody else writing: in the group, in a chat without id, to the owner
IncomingEvents ==
    {Event(Some(GroupChat), Some(OtherId), FALSE, b, t) :
        b \in BOOLEAN, t \in {T_BuyNow, T_shout}}
    \cup {Event(None, Some(OtherId), FALSE, FALSE, t) : t \in {T_shout, T_hello}}
    \cup {Event(Some(OwnerId), None, FALSE, FALSE, T_shout),
          Event(Some(OwnerId), Some(OtherId), FALSE, FALSE, T_cancel)}

Events == OwnerEvents \cup ElsewhereEvents \cup IncomingEvents

\* entries of the rule files found at startup; labels are free text and
\* nothing keeps them distinct: E_any carries a label the owner may type again
E_any ==
    [label |-> T_Promo, include_all |-> <<>>,
     include_any |-> << <<"p","r","o","m","o">>, <<"N","O","W">> >>,
     exclude |-> <<>>, chats |-> None]
E_deal ==
    [label |-> <<"D","e","a","l">>, include_all |-> << <<"b","u","y"," ","n","o","w">> >>,
     include_any |-> <<>>, exclude |-> << <<"P","r","o","m","o">> >>,
     chats |-> Some(<<GroupChat>>)]
\* entries that load_rules rejects: no include keyword, blank label
E_bare ==
    [label |-> <<"B","a","r","e">>, include_all |-> <<>>, include_any |-> <<>>,
     exclude |-> << <<"P","r","o","m","o">> >>, chats |-> None]
E_blank ==
    [label |-> T_blank, include_all |-> << <<"N","O","W">> >>, include_any |-> <<>>,
     exclude |-> <<>>, chats |-> None]

AllTexts == OwnerTexts \cup ChatTexts

\* The handler's text computations, tabulated once over the finite set of
\* message texts: every entry is computed by the operators above.
TextTable ==
    [t \in AllTexts |->
        [stripped |-> strip(t),
         start    |-> StartMatch(strip(t)),
         cancel   |-> lower(strip(t)) = CancelWord,
         keywords |-> _parse_keywords(strip(t))]]

\* every keyword a rule of the model can hold: those of the initial rule
\* files and those the owner can type
AllKeywords ==
    UNION {{t.keywords[i] : i \in 1..Len(t.keywords)} :
              t \in {TextTable[x] : x \in AllTexts}}
    \cup UNION {{q[i] : i \in 1..Len(q)} :
                   q \in {E.include_all \o E.include_any \o E.exclude :
                             E \in {E_any, E_deal}}}

\* `keyword.casefold() in text.casefold()`, tabulated over the texts and
\* keywords of the model
PresentTable ==
    [t \in AllTexts |->
        {k \in AllKeywords : Contains(casefold(t), casefold(k))}]

\* `keyword.casefold() in normalized`, where normalized is text.casefold()
KeywordIn(keyword, text) ==
    IF text \in AllTexts /\ keyword \in AllKeywords
    THEN keyword \in PresentTable[text]
    ELSE Contains(casefold(text), casefold(keyword))

-----------------------------------------------------------------------------
(* Rules and the rule engine (rules.py) *)

\* dataclass Rule; chat_ids is None or Some(set of chat ids)
Rule(label, include_all, include_any, exclude, chat_ids) ==
    [label |-> label, include_all |-> include_all, include_any |-> include_any,
     exclude |-> exclude, chat_ids |-> chat_ids]

\* Python truthiness of an Optional[Set[int]]
Truthy(chat_ids) == chat_ids # None /\ Val(chat_ids) # {}

\* variant: a null chat id matches no declared scope
applies_to_chat_NullStrict(rule, chat_id) ==
    IF rule.chat_ids = None THEN TRUE
    ELSE chat_id # None /\ Val(chat_id) \in Val(rule.chat_ids)

applies_to_chat(rule, chat_id) ==
    IF chat_id = None \/ rule.chat_ids = None THEN TRUE
    ELSE Val(chat_id) \in Val(rule.chat_ids)

AllPresent(keywords, text) ==
    \A i \in 1..Len(keywords) : KeywordIn(keywords[i], text)

AnyPresent(keywords, text) ==
    \E i \in 1..Len(keywords) : KeywordIn(keywords[i], text)

\* variant: include_any is not consulted
RuleMatches_NoAny(rule, chat_id, text) ==
    IF ~applies_to_chat(rule, chat_id) THEN FALSE
    ELSE IF rule.include_all # <<>> /\ ~AllPresent(rule.include_all, text)
    THEN FALSE
    ELSE IF rule.exclude # <<>> /\ AnyPresent(rule.exclude, text)
    THEN FALSE
    ELSE TRUE

\* variant: an exclude keyword rejects only a rule without include_all
RuleMatches_IncludeWins(rule, chat_id, text) ==
    IF ~applies_to_chat(rule, chat_id) THEN FALSE
    ELSE IF rule.include_all # <<>> /\ ~AllPresent(rule.include_all, text)
    THEN FALSE
    ELSE IF rule.include_any # <<>> /\ ~AnyPresent(rule.include_any, text)
    THEN FALSE
    ELSE IF rule.include_all = <<>> /\ AnyPresent(rule.exclude, text)
    THEN FALSE
    ELSE TRUE

\* one iteration of the loop of RuleSet.match: TRUE when the rule is appended
RuleMatches(rule, chat_id, text) ==
    IF ~applies_to_chat(rule, chat_id) THEN FALSE
    ELSE IF rule.include_all # <<>> /\ ~AllPresent(rule.include_all, text)
    THEN FALSE
    ELSE IF rule.include_any # <<>> /\ ~AnyPresent(rule.include_any, text)
    THEN FALSE
    ELSE IF rule.exclude # <<>> /\ AnyPresent(rule.exclude, text)
    THEN FALSE
    ELSE TRUE

RECURSIVE MatchLoop(_, _, _, _, _)
MatchLoop(rs, i, chat_id, text, matches) ==
    IF i > Len(rs) THEN matches
    ELSE MatchLoop(rs, i + 1, chat_id, text,
                   IF RuleMatches(rs[i], chat_id, text)
                   THEN Append(matches, rs[i]) ELSE matches)

\* RuleSet.match(chat_id, text)
match(rs, chat_id, text) == MatchLoop(rs, 1, chat_id, text, <<>>)

\* RuleSet._rebuild_chat_cache
RECURSIVE _rebuild_chat_cache(_)
_rebuild_chat_cache(rs) ==
    IF rs = <<>> THEN {}
    ELSE (IF Truthy(rs[Len(rs)].chat_ids) THEN Val(rs[Len(rs)].chat_ids) ELSE {})
         \cup _rebuild_chat_cache(SubSeq(rs, 1, Len(rs) - 1))

\* variant: the scope of the new rule replaces the cache
CacheAfterAdd_Assign(cache, rule) ==
    IF Truthy(rule.chat_ids) THEN Val(rule.chat_ids) ELSE cache

\* RuleSet.add_rule: the cache after appending the rule
CacheAfterAdd(cache, rule) ==
    IF Truthy(rule.chat_ids) THEN cache \cup Val(rule.chat_ids) ELSE cache

\* property RuleSet.chat_ids: `self._chat_ids or None`
chat_ids_property(cache) == IF cache = {} THEN None ELSE Some(cache)

\* runner._matched_keywords
RECURSIVE FoundIn(_, _)
FoundIn(keywords, text) ==
    IF keywords = <<>> THEN <<>>
    ELSE (IF KeywordIn(Head(keywords), text) THEN <<Head(keywords)>> ELSE <<>>)
         \o FoundIn(Tail(keywords), text)

\* variant: of the include_any keywords only the first one found is reported
_matched_keywords_FirstAny(rule, text) ==
    LET any == FoundIn(rule.include_any, text)
    IN  FoundIn(rule.include_all, text) \o (IF any = <<>> THEN <<>> ELSE <<Head(any)>>)

_matched_keywords(rule, text) ==
    FoundIn(rule.include_all \o rule.include_any, text)

-----------------------------------------------------------------------------
(* The rule file (rules.py: save_rules, load_rules) *)

\* sorted(set of integers)
RECURSIVE Sorted(_)
Sorted(S) ==
    IF S = {} THEN <<>> ELSE <<SetMin(S)>> \o Sorted(S \ {SetMin(S)})

SeqToSet(q) == {q[i] : i \in 1..Len(q)}

\* one entry of the "rules" array; "chats" is absent (None) unless the
\* rule's chat_ids is a non-empty set
Entry(rule) ==
    [label |-> rule.label, include_all |-> rule.include_all,
     include_any |-> rule.include_any, exclude |-> rule.exclude,
     chats |-> IF Truthy(rule.chat_ids) THEN Some(Sorted(Val(rule.chat_ids)))
               ELSE None]

Serialize(rs) == [i \in 1..Len(rs) |-> Entry(rs[i])]

\* the file: missing, or holding a "rules" array
MissingFile == [kind |-> "missing", entries |-> <<>>]
JsonFile(entries) == [kind |-> "json", entries |-> entries]

\* save_rules when the write succeeds
save_rules(rs) == JsonFile(Serialize(rs))

\* _parse_chat_ids
_parse_chat_ids(chats) ==
    IF chats = None THEN None
    ELSE IF SeqToSet(Val(chats)) = {} THEN None
    ELSE Some(SeqToSet(Val(chats)))

\* variant: entries are taken as they are
LoadEntry_Unchecked(raw) ==
    Some(Rule(strip(raw.label), raw.include_all, raw.include_any, raw.exclude,
              _parse_chat_ids(raw.chats)))

\* the body of the loop of load_rules for one entry: the rule, or None when
\* the entry is rejected (no label, or no include keyword)
LoadEntry(raw) ==
    LET label == strip(raw.label)
    IN  IF label = <<>> THEN None
        ELSE IF raw.include_all = <<>> /\ raw.include_any = <<>> THEN None
        ELSE Some(Rule(label, raw.include_all, raw.include_any, raw.exclude,
                       _parse_chat_ids(raw.chats)))

\* load_rules: [ok, rules]; ok is FALSE when loading raises
load_rules(file) ==
    IF file.kind = "missing" THEN [ok |-> TRUE, rules |-> <<>>]
    ELSE IF \E i \in 1..Len(file.entries) : LoadEntry(file.entries[i]) = None
    THEN [ok |-> FALSE, rules |-> <<>>]
    ELSE [ok |-> TRUE,
          rules |-> [i \in 1..Len(file.entries) |-> Val(LoadEntry(file.entries[i]))]]

-----------------------------------------------------------------------------
(* Initial configurations *)

Settings(manual, ignore_self, ignore_bot) ==
    [manual_chat_filter |-> manual, ignore_self_messages |-> ignore_self,
     ignore_bot_messages |-> ignore_bot]

\* the configurations startup is tried with: the rule file found and the
\* settings (watch_chat_ids, ignore_self_messages, ignore_bot_messages); with
\* the last two files load_rules raises and the router never starts
InitialConfigs ==
    { <<MissingFile, Settings(Some({OwnerId, GroupChat}), TRUE, TRUE)>>,
      <<JsonFile(<<E_any>>), Settings(None, FALSE, FALSE)>>,
      <<JsonFile(<<E_deal, E_any>>), Settings(None, FALSE, TRUE)>>,
      <<JsonFile(<<E_any, E_bare>>), Settings(None, FALSE, FALSE)>>,
      <<JsonFile(<<E_blank>>), Settings(None, FALSE, FALSE)>> }

NoCall == [fn |-> "none"]

NoEvent == [chat_id |-> None, sender_id |-> None, out |-> FALSE, bot |-> FALSE,
            text |-> T_empty]

-----------------------------------------------------------------------------
(* The handler's state (runner.py: run) *)

\* dataclass PendingRuleSession with its defaults
PendingRuleSession(origin_chat_id, requested_by, target_chat_id) ==
    [origin_chat_id |-> origin_chat_id, requested_by |-> requested_by,
     target_chat_id |-> target_chat_id, step |-> "label", label |-> None,
     include_all |-> <<>>, include_any |-> <<>>, exclude |-> <<>>]

MapPut(m, k, v) == [x \in DOMAIN m \cup {k} |-> IF x = k THEN v ELSE m[x]]
MapPop(m, k) == [x \in DOMAIN m \ {k} |-> m[x]]

\* the state after construction: the rule file is loaded (a file that fails
\* to load aborts startup), no session exists, nothing has been handled
Init ==
    /\ \E c \in InitialConfigs : rule_file = c[1] /\ settings = c[2]
    /\ load_rules(rule_file).ok
    /\ rules = load_rules(rule_file).rules
    /\ chat_cache = _rebuild_chat_cache(rules)
    /\ pending_sessions = <<>>
    /\ ev = NoEvent
    /\ path = "init"
    /\ responses = <<>>
    /\ appended = <<>>
    /\ session = None
    /\ added = 0
    /\ call = NoCall
    /\ suspended = {}

\* locals of the handler
ChatId(e) == IF e.chat_id = None THEN 0 ELSE Val(e.chat_id)
Text(e) == TextTable[e.text].stripped
StartOf(e) == TextTable[e.text].start
KeywordsOf(e) == TextTable[e.text].keywords
HasSession(e) == ChatId(e) \in DOMAIN pending_sessions
SessionOf(e) == pending_sessions[ChatId(e)]
\* variant: every chat of a known sender counts as the self-conversation
is_saved_messages_AnyChat(e) == e.sender_id # None
is_saved_messages(e) == e.sender_id # None /\ ChatId(e) = Val(e.sender_id)
\* variant: the cancel command is compared letter for letter
IsCancel_CaseSensitive(e) == strip(e.text) = CancelWord
IsCancel(e) == TextTable[e.text].cancel
InManual(c) ==
    settings.manual_chat_filter = None \/ c \in Val(settings.manual_chat_filter)

Respond(kind) == [to |-> "chat", kind |-> kind]

\* what every branch records about the event
Handled(e, p, rs) ==
    /\ ev' = e
    /\ path' = p
    /\ responses' = rs
    /\ session' = IF HasSession(e) THEN Some(SessionOf(e)) ELSE None
    /\ UNCHANGED <<call, suspended>>

\* variant: every handled event writes the rule set back to the rule file
RulesUnchanged_Resaved ==
    /\ UNCHANGED <<rules, chat_cache, added>>
    /\ rule_file' = save_rules(rules)

RulesUnchanged == UNCHANGED <<rules, chat_cache, rule_file, added>>

-----------------------------------------------------------------------------
(* The handler, one action per branch *)

\* lines 218-220: no message text
NoText(e) ==
    /\ e.text = <<>>
    /\ Handled(e, "no_text", <<>>)
    /\ appended' = <<>>
    /\ RulesUnchanged
    /\ UNCHANGED <<pending_sessions, settings>>

\* lines 229-236: outgoing message outside the self-conversation
OutgoingElsewhere(e) ==
    /\ e.text # <<>>
    /\ e.out /\ ~is_saved_messages(e)
    /\ IF StartOf(e) # None
       THEN Handled(e, "redirect", <<[to |-> "me", kind |-> "redirect"]>>)
       ELSE Handled(e, "outgoing_elsewhere", <<>>)
    /\ appended' = <<>>
    /\ RulesUnchanged
    /\ UNCHANGED <<pending_sessions, settings>>

\* variant: the cancel command is taken from any sender in the chat
Cancel_AnySender(e) ==
    /\ e.text # <<>>
    /\ HasSession(e) /\ IsCancel(e)
    /\ pending_sessions' = MapPop(pending_sessions, ChatId(e))
    /\ Handled(e, "cancel", <<Respond("cancelled")>>)
    /\ appended' = <<>>
    /\ RulesUnchanged
    /\ UNCHANGED settings

\* lines 238-241: cancel command
Cancel(e) ==
    /\ e.text # <<>>
    /\ e.out /\ is_saved_messages(e)
    /\ HasSession(e) /\ IsCancel(e)
    /\ pending_sessions' = MapPop(pending_sessions, ChatId(e))
    /\ Handled(e, "cancel", <<Respond("cancelled")>>)
    /\ appended' = <<>>
    /\ RulesUnchanged
    /\ UNCHANGED settings

\* lines 243-269: start command
Start(e) ==
    /\ e.text # <<>>
    /\ e.out /\ is_saved_messages(e)
    /\ ~(HasSession(e) /\ IsCancel(e))
    /\ StartOf(e) # None
    /\ added < MaxAdded
    /\ LET target_chat_id == Val(StartOf(e))
           requested_by == IF e.sender_id = None THEN 0 ELSE Val(e.sender_id)
           note == settings.manual_chat_filter # None
                   /\ target_chat_id \notin Val(settings.manual_chat_filter)
           onboarding == [to |-> "chat", kind |-> "onboarding",
                          target |-> target_chat_id, note |-> note]
       IN  /\ pending_sessions' =
                MapPut(pending_sessions, ChatId(e),
                       PendingRuleSession(ChatId(e), requested_by, target_chat_id))
           /\ Handled(e, "start",
                      IF HasSession(e) THEN <<Respond("replaced"), onboarding>>
                      ELSE <<onboarding>>)
    /\ appended' = <<>>
    /\ RulesUnchanged
    /\ UNCHANGED settings

\* the guard of line 271, reached only past the three commands
\* variant: the session consumes a start command as its step's input
Continues_BeforeStart(e) ==
    /\ e.text # <<>>
    /\ e.out /\ is_saved_messages(e)
    /\ HasSession(e)
    /\ ~IsCancel(e)

Continues(e) ==
    /\ e.text # <<>>
    /\ e.out /\ is_saved_messages(e)
    /\ HasSession(e)
    /\ ~IsCancel(e)
    /\ StartOf(e) = None

\* variant: the label is taken as it comes, empty or not
StepLabel_AcceptsEmpty(e) ==
    /\ Continues(e)
    /\ SessionOf(e).step = "label"
    /\ pending_sessions' =
            [pending_sessions EXCEPT ![ChatId(e)] =
                [@ EXCEPT !.label = Some(Text(e)), !.step = "include_all"]]
    /\ Handled(e, "label", <<Respond("ask_include_all")>>)
    /\ appended' = <<>>
    /\ RulesUnchanged
    /\ UNCHANGED settings

\* lines 272-283: step label
StepLabel(e) ==
    /\ Continues(e)
    /\ SessionOf(e).step = "label"
    /\ IF Text(e) = <<>>
       THEN /\ Handled(e, "label_rejected", <<Respond("label_empty")>>)
            /\ UNCHANGED pending_sessions
       ELSE /\ pending_sessions' =
                [pending_sessions EXCEPT ![ChatId(e)] =
                    [@ EXCEPT !.label = Some(Text(e)), !.step = "include_all"]]
            /\ Handled(e, "label", <<Respond("ask_include_all")>>)
    /\ appended' = <<>>
    /\ RulesUnchanged
    /\ UNCHANGED settings

\* lines 285-298: step include_all
StepIncludeAll(e) ==
    /\ Continues(e)
    /\ SessionOf(e).step = "include_all"
    /\ LET keywords == KeywordsOf(e)
       IN  /\ pending_sessions' =
                [pending_sessions EXCEPT ![ChatId(e)] =
                    [@ EXCEPT !.include_all = keywords, !.step = "include_any"]]
           /\ Handled(e, "include_all",
                      <<[to |-> "chat", kind |-> "ask_include_any",
                         note |-> (keywords = <<>>)]>>)
    /\ appended' = <<>>
    /\ RulesUnchanged
    /\ UNCHANGED settings

\* variant: an empty include_any is accepted whatever include_all holds
NoKeywordAtAll_Never(keywords, sess) == FALSE
\* line 302: neither list names a keyword
NoKeywordAtAll(keywords, sess) == keywords = <<>> /\ sess.include_all = <<>>

\* lines 300-314: step include_any
StepIncludeAny(e) ==
    /\ Continues(e)
    /\ SessionOf(e).step = "include_any"
    /\ LET keywords == KeywordsOf(e)
       IN  IF NoKeywordAtAll(keywords, SessionOf(e))
           THEN /\ Handled(e, "include_any_rejected", <<Respond("need_keyword")>>)
                /\ UNCHANGED pending_sessions
           ELSE /\ pending_sessions' =
                    [pending_sessions EXCEPT ![ChatId(e)] =
                        [@ EXCEPT !.include_any = keywords, !.step = "exclude"]]
                /\ Handled(e, "include_any", <<Respond("ask_exclude")>>)
    /\ appended' = <<>>
    /\ RulesUnchanged
    /\ UNCHANGED settings

\* lines 318-324: the rule built from the finished session
\* variant: the two include lists change places
NewRule_SwapIncludes(sess, exclude) ==
    Rule(IF sess.label = None THEN <<>> ELSE Val(sess.label),
         sess.include_any, sess.include_all, exclude,
         Some({sess.target_chat_id}))

NewRule(sess, exclude) ==
    Rule(IF sess.label = None THEN <<>> ELSE Val(sess.label),
         sess.include_all, sess.include_any, exclude,
         Some({sess.target_chat_id}))

\* outcomes of save_rules: the file is written, or mkdir or opening the
\* file raises OSError and the content stays as it was
WriteOutcomes == {"ok", "failed"}

FileAfterWrite(outcome, file, rs) ==
    IF outcome = "ok" THEN save_rules(rs) ELSE file

\* variant: the summary is sent whether or not the save succeeded
ExcludeResponses_Always(outcome, summary) == <<summary>>
\* lines 325-344: event.respond(summary) is reached only when add_rule
\* returns; an OSError raised by the save skips it
ExcludeResponses(outcome, summary) ==
    IF outcome = "ok" THEN <<summary>> ELSE <<>>

\* lines 316-345: step exclude; RuleRepository.add_rule appends to the rule
\* set, then saves; an OSError of the save leaves the handler at line 325
StepExcludeWithin(e, limit) ==
    /\ Continues(e)
    /\ SessionOf(e).step = "exclude"
    /\ added < limit
    /\ \E outcome \in WriteOutcomes :
        LET exclude == KeywordsOf(e)
            new_rule == NewRule(SessionOf(e), exclude)
            summary == [to |-> "chat", kind |-> "summary",
                        target |-> SessionOf(e).target_chat_id,
                        label |-> new_rule.label,
                        include_all |-> new_rule.include_all,
                        include_any |-> new_rule.include_any,
                        exclude |-> new_rule.exclude,
                        note |-> ~InManual(SessionOf(e).target_chat_id)]
        IN  /\ rules' = Append(rules, new_rule)
            /\ chat_cache' = CacheAfterAdd(chat_cache, new_rule)
            /\ added' = added + 1
            /\ rule_file' = FileAfterWrite(outcome, rule_file, rules')
            /\ IF outcome = "ok"
               THEN /\ pending_sessions' = MapPop(pending_sessions, ChatId(e))
                    /\ Handled(e, "exclude", ExcludeResponses(outcome, summary))
               ELSE /\ pending_sessions' =
                        [pending_sessions EXCEPT ![ChatId(e)].exclude = exclude]
                    /\ Handled(e, "exclude_write_failed",
                               ExcludeResponses(outcome, summary))
    /\ appended' = <<>>
    /\ UNCHANGED settings

StepExclude(e) == StepExcludeWithin(e, MaxAdded)

\* variant: session input falls through to the filters
ReachesFilters_SessionInput(e) ==
    /\ e.text # <<>>
    /\ ~(e.out /\ ~is_saved_messages(e))
    /\ ~(e.out /\ HasSession(e) /\ IsCancel(e))
    /\ ~(e.out /\ StartOf(e) # None)

\* the events that get past line 345: incoming messages, and outgoing ones
\* in the self-conversation that are neither a command nor session input
ReachesFilters(e) ==
    /\ e.text # <<>>
    /\ ~(e.out /\ ~is_saved_messages(e))
    /\ ~(e.out /\ HasSession(e) /\ IsCancel(e))
    /\ ~(e.out /\ StartOf(e) # None)
    /\ ~(e.out /\ HasSession(e))

\* variant: the chat-scope cache is not consulted
FilterPath_NoScope(e) ==
    IF settings.manual_chat_filter # None
       /\ ChatId(e) \notin Val(settings.manual_chat_filter)
    THEN "drop_manual"
    ELSE IF settings.ignore_self_messages /\ e.out
    THEN "drop_self"
    ELSE IF settings.ignore_bot_messages /\ e.bot
    THEN "drop_bot"
    ELSE "pass"

\* lines 347-362: the first filter that drops the event, or "pass"
FilterPath(e) ==
    IF settings.manual_chat_filter # None
       /\ ChatId(e) \notin Val(settings.manual_chat_filter)
    THEN "drop_manual"
    ELSE IF chat_ids_property(chat_cache) # None
            /\ ChatId(e) \notin Val(chat_ids_property(chat_cache))
    THEN "drop_scope"
    ELSE IF settings.ignore_self_messages /\ e.out
    THEN "drop_self"
    ELSE IF settings.ignore_bot_messages /\ e.bot
    THEN "drop_bot"
    ELSE "pass"

Dropped(e, p) ==
    /\ ReachesFilters(e)
    /\ FilterPath(e) = p
    /\ Handled(e, p, <<>>)
    /\ appended' = <<>>
    /\ RulesUnchanged
    /\ UNCHANGED <<pending_sessions, settings>>

DropManual(e) == Dropped(e, "drop_manual")
DropScope(e) == Dropped(e, "drop_scope")
DropSelf(e) == Dropped(e, "drop_self")
DropBot(e) == Dropped(e, "drop_bot")

\* line 364
Matches(e) == match(rules, Some(ChatId(e)), e.text)

\* lines 364-366: no rule matches
NoMatch(e) ==
    /\ ReachesFilters(e)
    /\ FilterPath(e) = "pass"
    /\ Matches(e) = <<>>
    /\ Handled(e, "no_match", <<>>)
    /\ appended' = <<>>
    /\ RulesUnchanged
    /\ UNCHANGED <<pending_sessions, settings>>

\* lines 383-397: the record of one matched rule
MessageRecord(rule, e) ==
    [label |-> rule.label, chat_id |-> ChatId(e), message_text |-> e.text,
     matched_keywords |-> _matched_keywords(rule, e.text),
     excluded_keywords |-> rule.exclude]

\* variant: the first failed append ends the loop
Attempts_StopAtFailure(matches, e, oks) ==
    LET failed == {i \in 1..Len(matches) : ~oks[i]}
        last == IF failed = {} THEN Len(matches) ELSE SetMin(failed)
    IN  [i \in 1..last |-> [record |-> MessageRecord(matches[i], e), ok |-> oks[i]]]

\* lines 382-411: the loop over the matched rules; the exception of a failed
\* append is caught and logged inside the loop body
Attempts(matches, e, oks) ==
    [i \in 1..Len(matches) |-> [record |-> MessageRecord(matches[i], e), ok |-> oks[i]]]

\* lines 364-411: one append attempt per matched rule, each of which the
\* sink may fail
Log(e) ==
    /\ ReachesFilters(e)
    /\ FilterPath(e) = "pass"
    /\ LET matches == Matches(e)
       IN  /\ matches # <<>>
           /\ \E oks \in [1..Len(matches) -> BOOLEAN] :
                appended' = Attempts(matches, e, oks)
    /\ Handled(e, "logged", <<>>)
    /\ RulesUnchanged
    /\ UNCHANGED <<pending_sessions, settings>>

Next ==
    \/ \E e \in Events : NoText(e)
    \/ \E e \in Events : OutgoingElsewhere(e)
    \/ \E e \in Events : Cancel(e)
    \/ \E e \in Events : Start(e)
    \/ \E e \in Events : StepLabel(e)
    \/ \E e \in Events : StepIncludeAll(e)
    \/ \E e \in Events : StepIncludeAny(e)
    \/ \E e \in Events : StepExclude(e)
    \/ \E e \in Events : DropManual(e)
    \/ \E e \in Events : DropScope(e)
    \/ \E e \in Events : DropSelf(e)
    \/ \E e \in Events : DropBot(e)
    \/ \E e \in Events : NoMatch(e)
    \/ \E e \in Events : Log(e)

Spec == Init /\ [][Next]_vars

-----------------------------------------------------------------------------
(* The handler as a coroutine.  The client is built at lines 133-135        *)
(* without sequential_updates, so each update is dispatched in a task of    *)
(* its own and a handler waiting at an await lets the handlers of other     *)
(* events run.  Every branch that writes the session map or the rule set    *)
(* does so before its first await, except the start command that finds a    *)
(* session: it reads the session at line 224, awaits the replacement notice *)
(* at line 248 and stores the new session at line 256.  SpecAsync runs the  *)
(* handlers of the owner's messages with that branch split at the await.    *)

MaxSuspended == 1

\* the owner's messages handled concurrently: the two start commands, the
\* cancel command and two inputs
AsyncEvents ==
    {e \in OwnerEvents : e.text \in {T_watch5, T_watch7, T_cancel, T_Promo, T_dash}}

\* lines 243-256 when no session is found: no await before the write
StartFresh(e) == ~HasSession(e) /\ Start(e)

\* lines 243-248 when a session is found: the notice is awaited
StartAwaits(e) ==
    /\ e.text # <<>>
    /\ e.out /\ is_saved_messages(e)
    /\ HasSession(e) /\ ~IsCancel(e)
    /\ StartOf(e) # None
    /\ added < MaxAdded
    /\ Cardinality(suspended) < MaxSuspended
    /\ suspended' = suspended \cup {[event |-> e, read |-> SessionOf(e)]}
    /\ ev' = e
    /\ path' = "start_awaits"
    /\ responses' = <<Respond("replaced")>>
    /\ session' = Some(SessionOf(e))
    /\ appended' = <<>>
    /\ RulesUnchanged
    /\ UNCHANGED <<pending_sessions, settings, call>>

\* lines 250-269: the handler resumes, stores the new session and sends
\* the onboarding text
StartResumes(t) ==
    LET e == t.event
        target_chat_id == Val(StartOf(e))
        requested_by == IF e.sender_id = None THEN 0 ELSE Val(e.sender_id)
        note == settings.manual_chat_filter # None
                /\ target_chat_id \notin Val(settings.manual_chat_filter)
    IN  /\ suspended' = suspended \ {t}
        /\ pending_sessions' =
              MapPut(pending_sessions, ChatId(e),
                     PendingRuleSession(ChatId(e), requested_by, target_chat_id))
        /\ ev' = e
        /\ path' = "start_resumes"
        /\ responses' = <<[to |-> "chat", kind |-> "onboarding",
                           target |-> target_chat_id, note |-> note]>>
        /\ session' = Some(t.read)
        /\ appended' = <<>>
        /\ RulesUnchanged
        /\ UNCHANGED <<settings, call>>

NextAsync ==
    \/ \E e \in AsyncEvents : Cancel(e)
    \/ \E e \in AsyncEvents : StartFresh(e)
    \/ \E e \in AsyncEvents : StartAwaits(e)
    \/ \E t \in suspended : StartResumes(t)
    \/ \E e \in AsyncEvents : StepLabel(e)
    \/ \E e \in AsyncEvents : StepIncludeAll(e)
    \/ \E e \in AsyncEvents : StepIncludeAny(e)
    \/ \E e \in AsyncEvents : StepExclude(e)

SpecAsync == Init /\ [][NextAsync]_vars

-----------------------------------------------------------------------------
(* The owner's messages in the self-conversation while a session is being   *)
(* authored, with the exclude input taken again after a failed write of the *)
(* rule file: the exception of save_rules leaves the handler at line 325,   *)
(* before the session is popped at line 326.                                *)

\* the exclude input is sent again at most this many times
MaxResends == 1

NextResend ==
    \/ \E e \in AsyncEvents : Start(e)
    \/ \E e \in AsyncEvents : Cancel(e)
    \/ \E e \in AsyncEvents : StepLabel(e)
    \/ \E e \in AsyncEvents : StepIncludeAll(e)
    \/ \E e \in AsyncEvents : StepIncludeAny(e)
    \/ \E e \in AsyncEvents : StepExcludeWithin(e, MaxAdded + MaxResends)

SpecResend == Init /\ [][NextResend]_vars

-----------------------------------------------------------------------------
(* RuleSet.match applied on its own, to rule sets that need not come from a  *)
(* rule file: any sequence of rules, rules without include keywords and     *)
(* rules with an empty chat set included.                                   *)

\* longest rule set given to match
MaxMatchRules == 2

RulePool ==
    { Rule(<<"D","e","a","l">>, << T_buynow >>, <<>>, << T_Promo >>,
           Some({GroupChat})),
      Rule(<<"A","n","y">>, <<>>, << <<"p","r","o","m","o">>, <<"N","O","W">> >>,
           <<>>, None),
      Rule(<<"B","o","t","h">>, << <<"b","u","y">> >>,
           << <<"h","e","l","l","o">>, <<"!">> >>, <<>>,
           Some({OwnerId, GroupChat})),
      Rule(<<"B","a","r","e">>, <<>>, <<>>, << <<"H","E","L","L","O">> >>, None),
      Rule(<<"N","o","w","h","e","r","e">>, <<>>, << <<"b","u","y">> >>, <<>>,
           Some({})) }

RuleSeqs == UNION {[1..n -> RulePool] : n \in 0..MaxMatchRules}

MatchChats == {None, Some(0), Some(OwnerId), Some(GroupChat)}
MatchTexts == {T_empty, T_buynow, T_BuyNow, T_shout, T_hello, T_Promo}

InitMatch ==
    /\ rules \in RuleSeqs
    /\ chat_cache = _rebuild_chat_cache(rules)
    /\ rule_file = MissingFile
    /\ settings = Settings(None, FALSE, FALSE)
    /\ pending_sessions = <<>>
    /\ ev = NoEvent
    /\ path = "init"
    /\ responses = <<>>
    /\ appended = <<>>
    /\ session = None
    /\ added = 0
    /\ call = NoCall
    /\ suspended = {}

ApplyMatch(chat_id, text) ==
    /\ call' = [fn |-> "match", chat_id |-> chat_id, text |-> text,
                result |-> match(rules, chat_id, text)]
    /\ UNCHANGED <<rules, chat_cache, rule_file, pending_sessions, settings, ev,
                   path, responses, appended, session, added, suspended>>

NextMatch == \E chat_id \in MatchChats, text \in MatchTexts : ApplyMatch(chat_id, text)

SpecMatch == InitMatch /\ [][NextMatch]_vars

-----------------------------------------------------------------------------
(* _parse_keywords on its own, applied to every text of up to MaxRawLen     *)
(* characters over a small alphabet and to a few longer inputs.             *)

MaxRawLen == 3

RawChars == {"a", "B", ",", ";", "\n", " ", "-"}

\* "a, b;c<newline>d", " Skip ", "NONE", "skip", "none,a", "a,,b ;; a"
LongRaws ==
    { <<"a",","," ","b",";","c","\n","d">>,
      <<" ","S","k","i","p"," ">>,
      <<"N","O","N","E">>,
      <<"s","k","i","p">>,
      <<"n","o","n","e",",","a">>,
      <<"a",",",",","b"," ",";",";"," ","a">> }

Raws == UNION {[1..n -> RawChars] : n \in 0..MaxRawLen} \cup LongRaws

InitParse ==
    /\ call \in {[fn |-> "input", raw |-> raw] : raw \in Raws}
    /\ rules = <<>>
    /\ chat_cache = {}
    /\ rule_file = MissingFile
    /\ settings = Settings(None, FALSE, FALSE)
    /\ pending_sessions = <<>>
    /\ ev = NoEvent
    /\ path = "init"
    /\ responses = <<>>
    /\ appended = <<>>
    /\ session = None
    /\ added = 0
    /\ suspended = {}

ApplyParse ==
    /\ call.fn = "input"
    /\ call' = [fn |-> "_parse_keywords", raw |-> call.raw,
                result |-> _parse_keywords(call.raw)]
    /\ UNCHANGED <<rules, chat_cache, rule_file, pending_sessions, settings, ev,
                   path, responses, appended, session, added, suspended>>

NextParse == ApplyParse

SpecParse == InitParse /\ [][NextParse]_vars

-----------------------------------------------------------------------------
(* The operations of RuleSet on their own: construction from any sequence   *)
(* of rules of the pool, add_rule and replace.                              *)

MaxSetRules == 3

\* RuleSet.add_rule (lines 45-48)
RuleSetAdd(rule) ==
    /\ Len(rules) < MaxSetRules
    /\ rules' = Append(rules, rule)
    /\ chat_cache' = CacheAfterAdd(chat_cache, rule)
    /\ call' = [fn |-> "add_rule", rule |-> rule]
    /\ UNCHANGED <<rule_file, pending_sessions, settings, ev, path, responses,
                   appended, session, added, suspended>>

\* RuleSet.replace (lines 50-52)
RuleSetReplace(rs) ==
    /\ rules' = rs
    /\ chat_cache' = _rebuild_chat_cache(rs)
    /\ call' = [fn |-> "replace", rules |-> rs]
    /\ UNCHANGED <<rule_file, pending_sessions, settings, ev, path, responses,
                   appended, session, added, suspended>>

NextRuleSet ==
    \/ \E rule \in RulePool : RuleSetAdd(rule)
    \/ \E rs \in RuleSeqs : RuleSetReplace(rs)

SpecRuleSet == InitMatch /\ [][NextRuleSet]_vars

-----------------------------------------------------------------------------
(* load_rules on every content a rule file can have (rules.py 116-191).     *)
(* A decoded JSON value is a record whose field t names its Python type;    *)
(* an object keeps its members as a sequence of <<key, value>> pairs.       *)

JNull == [t |-> "null"]
JBool(b) == [t |-> "bool", b |-> b]
JInt(n) == [t |-> "int", n |-> n]
JFloat(whole, tenths) == [t |-> "float", whole |-> whole, tenths |-> tenths]
JStr(s) == [t |-> "str", s |-> s]
JList(items) == [t |-> "list", items |-> items]
JDict(members) == [t |-> "dict", members |-> members]

\* the keys of an object
Keys(d) == {d.members[i][1] : i \in 1..Len(d.members)}

\* Python truthiness of a decoded value
bool(x) ==
    CASE x.t = "null"  -> FALSE
      [] x.t = "bool"  -> x.b
      [] x.t = "int"   -> x.n # 0
      [] x.t = "float" -> x.whole # 0 \/ x.tenths # 0
      [] x.t = "str"   -> x.s # <<>>
      [] x.t = "list"  -> x.items # <<>>
      [] x.t = "dict"  -> x.members # <<>>

\* `a or b`
Or(a, b) == IF bool(a) THEN a ELSE b

\* dict.get(key): None for an absent key
get(d, key) ==
    IF key \in Keys(d)
    THEN d.members[CHOOSE i \in 1..Len(d.members) : d.members[i][1] = key][2]
    ELSE JNull

\* the decimal digits of a natural number
RECURSIVE NatDigits(_)
NatDigits(n) ==
    IF n < 10 THEN <<DigitChars[n + 1]>>
    ELSE NatDigits(n \div 10) \o <<DigitChars[(n % 10) + 1]>>

\* str() of a string or of a natural number
str(x) == IF x.t = "str" THEN x.s ELSE NatDigits(x.n)

\* int() of a decoded value: None when it raises TypeError or ValueError.
\* A float is truncated; a string is trimmed and read as decimal digits.
int(x) ==
    CASE x.t = "int"   -> Some(x.n)
      [] x.t = "bool"  -> Some(IF x.b THEN 1 ELSE 0)
      [] x.t = "float" -> Some(x.whole)
      [] x.t = "str"   ->
            LET s == strip(x.s)
            IN  IF s # <<>> /\ \A i \in 1..Len(s) : IsDigit(s[i])
                THEN Some(DigitsToInt(s)) ELSE None
      [] OTHER         -> None

\* _ensure_list, lines 88-95: None when it raises ValueError
_ensure_list(value) ==
    CASE value.t = "null" -> Some(<<>>)
      [] value.t = "str"  -> Some(<<value.s>>)
      [] value.t = "list" -> Some([i \in 1..Len(value.items) |-> str(value.items[i])])
      [] OTHER            -> None

\* _parse_chat_ids on a decoded value, lines 98-113: [ok, chat_ids]; ok is
\* FALSE when it raises ValueError
_parse_chat_ids_value(value) ==
    IF value.t = "null" THEN [ok |-> TRUE, chat_ids |-> None]
    ELSE IF value.t # "list" THEN [ok |-> FALSE, chat_ids |-> None]
    ELSE IF \E i \in 1..Len(value.items) : int(value.items[i]) = None
    THEN [ok |-> FALSE, chat_ids |-> None]
    ELSE LET ids == {Val(int(value.items[i])) : i \in 1..Len(value.items)}
         IN  [ok |-> TRUE, chat_ids |-> IF ids = {} THEN None ELSE Some(ids)]

Raised(error) == [ok |-> FALSE, error |-> error, rules |-> <<>>]
Loaded(rs) == [ok |-> TRUE, error |-> "", rules |-> rs]

\* lines 157-188, the loop body for one element of the array
LoadRaw(raw) ==
    IF raw.t # "dict" THEN Raised("RuntimeError")
    ELSE
    LET label == strip(str(Or(Or(get(raw, "label"), get(raw, "name")), JStr(<<>>))))
        include_all == _ensure_list(Or(get(raw, "include_all"), get(raw, "include")))
        include_any == _ensure_list(get(raw, "include_any"))
        exclude == _ensure_list(get(raw, "exclude"))
        chats == _parse_chat_ids_value(get(raw, "chats"))
    IN  IF label = <<>> THEN Raised("RuntimeError")
        ELSE IF include_all = None \/ include_any = None \/ exclude = None
        THEN Raised("ValueError")
        ELSE IF ~chats.ok THEN Raised("ValueError")
        ELSE IF Val(include_all) = <<>> /\ Val(include_any) = <<>>
        THEN Raised("RuntimeError")
        ELSE Loaded(<<Rule(label, Val(include_all), Val(include_any), Val(exclude),
                           chats.chat_ids)>>)

\* the loop of lines 155-188: the first element that raises ends the load
RECURSIVE LoadLoop(_, _)
LoadLoop(raw_rules, acc) ==
    IF raw_rules = <<>> THEN Loaded(acc)
    ELSE LET one == LoadRaw(Head(raw_rules))
         IN  IF ~one.ok THEN one ELSE LoadLoop(Tail(raw_rules), acc \o one.rules)

\* a file on disk: whether it exists, its text, and what json.loads makes
\* of the text (None when it raises JSONDecodeError)
TextFile(raw_text, decoded) ==
    [exists |-> TRUE, raw_text |-> raw_text, decoded |-> decoded]
AbsentFile == [exists |-> FALSE, raw_text |-> <<>>, decoded |-> None]

\* load_rules, lines 116-191, on a file holding any text
load_rules_text(file) ==
    IF ~file.exists THEN Loaded(<<>>)
    ELSE IF strip(file.raw_text) = <<>> THEN Loaded(<<>>)
    ELSE IF file.decoded = None THEN Raised("RuntimeError")
    ELSE
    LET data == Val(file.decoded)
    IN  IF data.t \notin {"dict", "list"} THEN Raised("RuntimeError")
        ELSE
        LET raw_rules == IF data.t = "dict"
                         THEN Or(get(data, "rules"), JList(<<>>)) ELSE data
        IN  IF raw_rules.t # "list" THEN Raised("RuntimeError")
            ELSE LoadLoop(raw_rules.items, <<>>)

MaxEntries == 2

W_buy == <<"b","u","y">>
W_now == <<"n","o","w">>
W_Deal == <<"D","e","a","l">>

\* elements of a "rules" array: three that load_rules accepts as written
\* (a label under "name", a keyword given as a string, keywords under
\* "include", a chat id written as a string), then one of every kind it is
\* expected to refuse: a string, an array, no label, a blank label, a null
\* label, no include key, empty include arrays, a chat id that is a word, a
\* fraction, null, "chats" that is a number, "include_all" that is a number
RawPool ==
    {JDict(<< <<"label", JStr(W_Deal)>>,
              <<"include_all", JList(<<JStr(W_buy)>>)>>,
              <<"exclude", JList(<<JStr(T_Promo)>>)>>,
              <<"chats", JList(<<JInt(GroupChat)>>)>> >>),
     JDict(<< <<"name", JStr(<<" ","A","n","y">>)>>,
              <<"include_any", JStr(W_now)>> >>),
     JDict(<< <<"label", JStr(<<"O","l","d">>)>>,
              <<"include", JList(<<JStr(W_buy), JInt(24)>>)>>,
              <<"chats", JList(<<JStr(<<" ","7">>), JInt(GroupChat)>>)>> >>),
     JStr(W_Deal),
     JList(<<JStr(W_Deal), JStr(W_buy)>>),
     JDict(<< <<"include_all", JList(<<JStr(W_buy)>>)>> >>),
     JDict(<< <<"label", JStr(T_blank)>>,
              <<"include_all", JList(<<JStr(W_buy)>>)>> >>),
     JDict(<< <<"label", JNull>>,
              <<"include_any", JList(<<JStr(W_now)>>)>> >>),
     JDict(<< <<"label", JStr(W_Deal)>>,
              <<"exclude", JList(<<JStr(T_Promo)>>)>> >>),
     JDict(<< <<"label", JStr(W_Deal)>>,
              <<"include_all", JList(<<>>)>>,
              <<"include_any", JList(<<>>)>> >>),
     JDict(<< <<"label", JStr(W_Deal)>>,
              <<"include_all", JList(<<JStr(W_buy)>>)>>,
              <<"chats", JList(<<JInt(GroupChat), JStr(<<"a","b","c">>)>>)>> >>),
     JDict(<< <<"label", JStr(W_Deal)>>,
              <<"include_all", JList(<<JStr(W_buy)>>)>>,
              <<"chats", JList(<<JFloat(5, 7)>>)>> >>),
     JDict(<< <<"label", JStr(W_Deal)>>,
              <<"include_all", JList(<<JStr(W_buy)>>)>>,
              <<"chats", JList(<<JNull>>)>> >>),
     JDict(<< <<"label", JStr(W_Deal)>>,
              <<"include_all", JList(<<JStr(W_buy)>>)>>,
              <<"chats", JInt(GroupChat)>> >>),
     JDict(<< <<"label", JStr(W_Deal)>>,
              <<"include_all", JInt(5)>> >>)}

Arrays == UNION {[1..n -> RawPool] : n \in 0..MaxEntries}

\* values of the "rules" key that are not arrays
NotArrays ==
    {JNull, JBool(FALSE), JBool(TRUE), JInt(0), JInt(3), JStr(<<>>), JStr(W_Deal),
     JDict(<<>>), JDict(<< <<"label", JStr(W_Deal)>> >>)}

\* the documents: a bare array, an object with a "rules" array, an object
\* whose "rules" is no array, an object without "rules", and values that
\* are neither an object nor an array
Documents ==
    {JList(q) : q \in Arrays}
    \cup {JDict(<< <<"rules", JList(q)>> >>) : q \in Arrays}
    \cup {JDict(<< <<"rules", x>> >>) : x \in NotArrays}
    \cup {JDict(<<>>), JDict(<< <<"label", JStr(W_Deal)>> >>)}
    \cup {x \in NotArrays : x.t # "dict"}

\* the text of a file that holds a document is kept up to its first
\* character; what matters of it is that it is not blank
Opening(doc) ==
    CASE doc.t = "dict" -> <<"{">>
      [] doc.t = "list" -> <<"[">>
      [] doc.t = "str"  -> <<"\"">>
      [] doc.t = "int"  -> NatDigits(doc.n)
      [] doc.t = "bool" -> IF doc.b THEN <<"t">> ELSE <<"f">>
      [] doc.t = "null" -> <<"n">>

\* files without a document: absent, empty, blank, and two that json.loads
\* refuses
Files ==
    {AbsentFile, TextFile(<<>>, None), TextFile(<<" ", "\n", "\t">>, None),
     TextFile(<<"{">>, None), TextFile(<<"[", "{", "]">>, None)}
    \cup {TextFile(Opening(doc), Some(doc)) : doc \in Documents}

InitLoad ==
    /\ call \in {[fn |-> "input", file |-> f] : f \in Files}
    /\ rules = <<>>
    /\ chat_cache = {}
    /\ rule_file = MissingFile
    /\ settings = Settings(None, FALSE, FALSE)
    /\ pending_sessions = <<>>
    /\ ev = NoEvent
    /\ path = "init"
    /\ responses = <<>>
    /\ appended = <<>>
    /\ session = None
    /\ added = 0
    /\ suspended = {}

ApplyLoad ==
    /\ call.fn = "input"
    /\ call' = [fn |-> "load_rules", file |-> call.file,
                result |-> load_rules_text(call.file)]
    /\ UNCHANGED <<rules, chat_cache, rule_file, pending_sessions, settings, ev,
                   path, responses, appended, session, added, suspended>>

NextLoad == ApplyLoad

SpecLoad == InitLoad /\ [][NextLoad]_vars

-----------------------------------------------------------------------------
(* Vocabulary of the properties *)

\* two characters that are the same letter, whatever their case
SameLetter(a, b) ==
    a = b \/ \E i \in 1..26 : {a, b} \subseteq {UpperChars[i], LowerChars[i]}

\* keyword k is a case-insensitive substring of text T
CISubstring(k, T) ==
    \E o \in 0..(Len(T) - Len(k)) : \A j \in 1..Len(k) : SameLetter(T[o + j], k[j])

InScope(r, c) == c = None \/ r.chat_ids = None \/ Val(c) \in Val(r.chat_ids)
HasAll(r, T) == \A i \in 1..Len(r.include_all) : CISubstring(r.include_all[i], T)
HasAny(r, T) ==
    r.include_any = <<>> \/ \E i \in 1..Len(r.include_any) : CISubstring(r.include_any[i], T)
ExcludeHit(r, T) == \E i \in 1..Len(r.exclude) : CISubstring(r.exclude[i], T)
KeywordsHold(r, T) == HasAll(r, T) /\ HasAny(r, T) /\ ~ExcludeHit(r, T)

\* the subsequence of q at the positions in idx, in increasing order
RECURSIVE Pick(_, _)
Pick(q, idx) ==
    IF idx = {} THEN <<>> ELSE <<q[SetMin(idx)]>> \o Pick(q, idx \ {SetMin(idx)})

\* the rules of R that apply to c and whose keyword conditions T satisfies
Selected(R, c, T) ==
    Pick(R, {i \in 1..Len(R) : InScope(R[i], c) /\ KeywordsHold(R[i], T)})

Occurs(x, q) == \E i \in 1..Len(q) : q[i] = x

-----------------------------------------------------------------------------
(* C1: match(c, T) returns exactly the rules that apply to c, contain every *)
(* include_all keyword, contain some include_any keyword (when there is     *)
(* one) and contain no exclude keyword, each compared case-insensitively,   *)
(* in definition order, none dropped and none duplicated.                   *)
C1_MatchExact ==
    call.fn = "match" => call.result = Selected(rules, call.chat_id, call.text)

\* a text that matches two different rules of the set
C1_Witness ==
    /\ call.fn = "match"
    /\ Len(rules) = 2 /\ rules[1] # rules[2]
    /\ call.result = rules

(* C3: a rule that declares a scope never matches a chat id outside the     *)
(* scope, matches a chat id inside it when the keyword conditions hold, and *)
(* a null chat id matches every scope.                                      *)
C3_ChatScoping ==
    call.fn = "match" =>
        \A i \in 1..Len(rules) :
            LET r == rules[i] IN
            r.chat_ids # None =>
                /\ (call.chat_id # None /\ Val(call.chat_id) \notin Val(r.chat_ids))
                        => ~Occurs(r, call.result)
                /\ (call.chat_id # None /\ Val(call.chat_id) \in Val(r.chat_ids)
                    /\ KeywordsHold(r, call.text))
                        => Occurs(r, call.result)
                /\ (call.chat_id = None /\ KeywordsHold(r, call.text))
                        => Occurs(r, call.result)

\* a scoped rule matched by a null chat id
C3_Witness ==
    /\ call.fn = "match"
    /\ call.chat_id = None
    /\ \E i \in 1..Len(call.result) : call.result[i].chat_ids = Some({GroupChat})

-----------------------------------------------------------------------------
(* Vocabulary of the properties of the handler.  In a step of Spec, ev' is  *)
(* the event the step handles and the unprimed variables are the state the  *)
(* handler finds.                                                           *)

\* the chat is the sender's conversation with themselves
InSelfConversation(e) == e.sender_id # None /\ ChatId(e) = Val(e.sender_id)

\* an outgoing text message in the self-conversation
OwnerMessage(e) == e.text # <<>> /\ e.out /\ InSelfConversation(e)

SameWord(a, b) == Len(a) = Len(b) /\ \A i \in 1..Len(a) : SameLetter(a[i], b[i])
IsCancelCommand(e) == SameWord(strip(e.text), CancelWord)
IsStartCommand(e) == StartOf(e) # None

\* an owner message that is neither command
OwnerInput(e) == OwnerMessage(e) /\ ~IsCancelCommand(e) /\ ~IsStartCommand(e)

RuleStoreUnchanged == UNCHANGED <<rules, chat_cache, rule_file>>

\* a session as the start command creates it
Fresh(s, origin, target) ==
    /\ s.origin_chat_id = origin /\ s.target_chat_id = target
    /\ s.step = "label" /\ s.label = None
    /\ s.include_all = <<>> /\ s.include_any = <<>> /\ s.exclude = <<>>

\* the last entry of the rule file is the entry of rule r
LastEntryIs(file, r, target) ==
    /\ file.kind = "json" /\ file.entries # <<>>
    /\ LET en == file.entries[Len(file.entries)]
       IN  /\ en.label = r.label /\ en.include_all = r.include_all
           /\ en.include_any = r.include_any /\ en.exclude = r.exclude
           /\ en.chats = Some(<<target>>)

(* C2: exclusion dominance.  A rule one of whose exclude keywords is a      *)
(* case-insensitive substring of the message text is not in the result of   *)
(* match for that text, whatever its include fields are, and none of the    *)
(* records emitted for the message stems from it: no record carries both    *)
(* its label and its exclude list.  (Two rules with the same exclude list   *)
(* are excluded together, so a record with both fields of an excluded rule  *)
(* cannot stem from another rule.)                                          *)
C2_ExclusionDominance ==
    \A i \in 1..Len(rules) :
        ExcludeHit(rules[i], ev.text) =>
            /\ ~Occurs(rules[i], match(rules, Some(ChatId(ev)), ev.text))
            /\ \A j \in 1..Len(appended) :
                ~(/\ appended[j].record.label = rules[i].label
                  /\ appended[j].record.excluded_keywords = rules[i].exclude)

\* C2 as stated: no emitted record carries the label of an excluded rule
C2_NoRecordWithLabel ==
    \A i \in 1..Len(rules) :
        ExcludeHit(rules[i], ev.text) =>
            /\ ~Occurs(rules[i], match(rules, Some(ChatId(ev)), ev.text))
            /\ \A j \in 1..Len(appended) :
                appended[j].record.label # rules[i].label

\* a message is logged for one rule while another rule, which applies to
\* the chat and whose include keywords are all present, is excluded
C2_Witness ==
    /\ path = "logged"
    /\ \E i \in 1..Len(rules) :
        /\ ExcludeHit(rules[i], ev.text)
        /\ InScope(rules[i], Some(ChatId(ev)))
        /\ rules[i].include_all # <<>> /\ HasAll(rules[i], ev.text)

(* C4: authoring round trip.  A start command in the self-conversation      *)
(* creates a session at step label for its target; each following owner     *)
(* input that is accepted moves the session one step, label -> include_all  *)
(* -> include_any -> exclude, storing the trimmed label and the parsed      *)
(* keyword lists; the input at step exclude, when the rule file is written, *)
(* appends exactly one rule built from the session's label and lists and    *)
(* scoped to the target at the end of the rule set, writes it as the last   *)
(* entry of the rule file and removes the session.                          *)
C4_Step ==
    LET e == ev'
        c == ChatId(e)
        s == pending_sessions[c]
        kw == _parse_keywords(strip(e.text))
    IN  /\ (OwnerMessage(e) /\ IsStartCommand(e)) =>
                /\ c \in DOMAIN pending_sessions'
                /\ Fresh(pending_sessions'[c], c, Val(StartOf(e)))
        /\ (OwnerInput(e) /\ c \in DOMAIN pending_sessions) =>
            CASE s.step = "label" /\ strip(e.text) # <<>> ->
                    /\ pending_sessions' = [pending_sessions EXCEPT ![c] =
                            [s EXCEPT !.label = Some(strip(e.text)),
                                      !.step = "include_all"]]
                    /\ RuleStoreUnchanged
              [] s.step = "include_all" ->
                    /\ pending_sessions' = [pending_sessions EXCEPT ![c] =
                            [s EXCEPT !.include_all = kw, !.step = "include_any"]]
                    /\ RuleStoreUnchanged
              [] s.step = "include_any" /\ ~(kw = <<>> /\ s.include_all = <<>>) ->
                    /\ pending_sessions' = [pending_sessions EXCEPT ![c] =
                            [s EXCEPT !.include_any = kw, !.step = "exclude"]]
                    /\ RuleStoreUnchanged
              [] s.step = "exclude" /\ path' = "exclude" ->
                    LET r == [label |-> Val(s.label), include_all |-> s.include_all,
                              include_any |-> s.include_any, exclude |-> kw,
                              chat_ids |-> Some({s.target_chat_id})]
                    IN  /\ rules' = Append(rules, r)
                        /\ LastEntryIs(rule_file', r, s.target_chat_id)
                        /\ Len(rule_file'.entries) = Len(rules')
                        /\ c \notin DOMAIN pending_sessions'
              [] OTHER -> TRUE

C5_Step ==
    LET e == ev'
        c == ChatId(e)
    IN  /\ (OwnerMessage(e) /\ IsCancelCommand(e) /\ c \in DOMAIN pending_sessions) =>
                /\ c \notin DOMAIN pending_sessions'
                /\ responses' = <<Respond("cancelled")>>
                /\ RuleStoreUnchanged
        /\ (OwnerMessage(e) /\ IsStartCommand(e) /\ c \notin DOMAIN pending_sessions) =>
                /\ c \in DOMAIN pending_sessions'
                /\ Fresh(pending_sessions'[c], c, Val(StartOf(e)))

C5_Cancellation == [][C5_Step]_vars

\* a session that had reached step exclude has been cancelled
C5_Witness ==
    /\ path = "cancel"
    /\ session # None /\ Val(session).step = "exclude"
    /\ pending_sessions = <<>>
    /\ added = 0

(* C6: rejected authoring input.  At step label an owner input whose        *)
(* trimmed text is empty, and at step include_any an owner input that       *)
(* parses to no keyword while the session's include_all is empty, produce   *)
(* one re-prompt and leave the session map, the rule set, its cache and the *)
(* rule file unchanged.                                                     *)
C6_Step ==
    LET e == ev'
        c == ChatId(e)
        s == pending_sessions[c]
    IN  (/\ OwnerInput(e) /\ c \in DOMAIN pending_sessions
         /\ \/ s.step = "label" /\ strip(e.text) = <<>>
            \/ /\ s.step = "include_any"
               /\ _parse_keywords(strip(e.text)) = <<>>
               /\ s.include_all = <<>>)
        => /\ UNCHANGED pending_sessions
           /\ RuleStoreUnchanged
           /\ Len(responses') = 1
           /\ responses'[1].kind \in {"label_empty", "need_keyword"}

C6_RejectedInput == [][C6_Step]_vars

\* "-" has been rejected at step include_any
C6_Witness ==
    /\ path = "include_any_rejected"
    /\ ev.text = T_dash
    /\ session # None /\ pending_sessions[OwnerId] = Val(session)
    /\ Val(session).step = "include_any"

(* C7: an outgoing message from a chat other than the self-conversation     *)
(* that is not a start command continues to the filters and rule matching:  *)
(* with self-message suppression off, the chat passing the allow-list and   *)
(* the scope cache, and a rule matching its text in that chat, a log record *)
(* is emitted.                                                              *)
C7_OutgoingElsewhereLogged ==
    (/\ ev.text # <<>> /\ ev.out /\ ~InSelfConversation(ev)
     /\ ~IsStartCommand(ev)
     /\ ~settings.ignore_self_messages
     /\ InManual(ChatId(ev))
     /\ (chat_cache = {} \/ ChatId(ev) \in chat_cache)
     /\ Selected(rules, Some(ChatId(ev)), ev.text) # <<>>)
    => appended # <<>>

(* C8: a rule without scope applies to all chats: every incoming message    *)
(* that passes the manual allow-list and the bot suppression flag and whose *)
(* text satisfies the rule's keyword conditions yields a record with the    *)
(* rule's label, whatever scopes the other rules declare.                   *)
C8_GlobalRuleLogged ==
    \A i \in 1..Len(rules) :
        (/\ rules[i].chat_ids = None
         /\ ev.text # <<>> /\ ~ev.out
         /\ InManual(ChatId(ev))
         /\ ~(settings.ignore_bot_messages /\ ev.bot)
         /\ KeywordsHold(rules[i], ev.text))
        => \E j \in 1..Len(appended) : appended[j].record.label = rules[i].label

(* C9: a start command sent from a chat other than the self-conversation    *)
(* leaves the session map, the rule set, its cache and the rule file        *)
(* unchanged; its only effect is one redirect notice, and no record is      *)
(* emitted.                                                                 *)
C9_Step ==
    LET e == ev'
    IN  (e.text # <<>> /\ e.out /\ ~InSelfConversation(e) /\ IsStartCommand(e))
        => /\ UNCHANGED pending_sessions
           /\ RuleStoreUnchanged
           /\ responses' = <<[to |-> "me", kind |-> "redirect"]>>
           /\ appended' = <<>>

C9_StartElsewhere == [][C9_Step]_vars

\* a start command arrives from the group while a session is open
C9_Witness ==
    /\ path = "redirect"
    /\ ev.chat_id = Some(GroupChat)
    /\ OwnerId \in DOMAIN pending_sessions
    /\ pending_sessions[OwnerId].step = "include_any"

(* C10: a start command in the self-conversation handled while a session    *)
(* exists for the chat is not consumed as the step's input: after a         *)
(* replacement notice the session is replaced by a new one at step label    *)
(* with the new target and empty fields, the rule store untouched; every    *)
(* session is stored under its own origin chat.                             *)
C10_Step ==
    LET e == ev'
        c == ChatId(e)
    IN  (OwnerMessage(e) /\ IsStartCommand(e) /\ c \in DOMAIN pending_sessions)
        => /\ DOMAIN pending_sessions' = DOMAIN pending_sessions
           /\ Fresh(pending_sessions'[c], c, Val(StartOf(e)))
           /\ \A d \in DOMAIN pending_sessions \ {c} :
                pending_sessions'[d] = pending_sessions[d]
           /\ Len(responses') = 2
           /\ responses'[1] = Respond("replaced")
           /\ responses'[2].kind = "onboarding"
           /\ responses'[2].target = Val(StartOf(e))
           /\ RuleStoreUnchanged

C10_StartReplaces ==
    /\ [][C10_Step]_vars
    /\ [](\A c \in DOMAIN pending_sessions : pending_sessions[c].origin_chat_id = c)

\* a session at step exclude has been replaced by one for another target
C10_Witness ==
    /\ path = "start"
    /\ session # None /\ Val(session).step = "exclude"
    /\ Val(session).target_chat_id = GroupChat
    /\ pending_sessions[OwnerId].target_chat_id = 0 - 7
    /\ pending_sessions[OwnerId].step = "label"

(* C11: strict precedence.  An event handled by the redirect, cancel, start *)
(* or session-continuation step produces no log record, even when its text  *)
(* satisfies a rule that applies to its chat: a start command sent outside  *)
(* the self-conversation, and an owner message that is a start command or   *)
(* finds a session for its chat, leave the list of append attempts empty.   *)
C11_Step ==
    LET e == ev'
        c == ChatId(e)
    IN  (\/ e.text # <<>> /\ e.out /\ ~InSelfConversation(e) /\ IsStartCommand(e)
         \/ OwnerMessage(e) /\ IsStartCommand(e)
         \/ OwnerMessage(e) /\ c \in DOMAIN pending_sessions)
        => appended' = <<>>

C11_StrictPrecedence == [][C11_Step]_vars

\* a label has been taken from a text that a rule applying to the chat
\* matches, with no filter in the way
C11_Witness ==
    /\ path = "label"
    /\ ~settings.ignore_self_messages
    /\ InManual(ChatId(ev))
    /\ chat_cache = {}
    /\ Selected(rules, Some(ChatId(ev)), ev.text) # <<>>
    /\ appended = <<>>

(* C12: durability of rule mutations.  Between the handling of two events   *)
(* the rules stored in the rule file are the rules of the in-memory rule    *)
(* set, rule for rule and in the same order, also after a write of the rule *)
(* file has failed.                                                         *)
C12_FileEqualsMemory ==
    /\ load_rules(rule_file).ok
    /\ load_rules(rule_file).rules = rules

\* a summary is among the responses
HasSummary(rs) == \E i \in 1..Len(rs) : rs[i].kind = "summary"

(* C13: append then respond.  At the exclude step a summary is sent only    *)
(* when the rule file written by the step holds the rule set with the new   *)
(* rule as its last entry; when the rule set grows and the file is left as  *)
(* it was, the step sends nothing.                                          *)
C13_Step ==
    LET e == ev'
        c == ChatId(e)
    IN  (/\ OwnerInput(e) /\ c \in DOMAIN pending_sessions
         /\ pending_sessions[c].step = "exclude")
        => /\ HasSummary(responses') =>
                /\ Len(rules') = Len(rules) + 1
                /\ load_rules(rule_file').ok
                /\ load_rules(rule_file').rules = rules'
           /\ (rule_file' = rule_file) => responses' = <<>>

C13_AppendThenRespond == [][C13_Step]_vars

\* the save has failed at the exclude step and nothing has been sent
C13_Witness ==
    /\ path = "exclude_write_failed"
    /\ Len(rules) = Len(load_rules(rule_file).rules) + 1
    /\ responses = <<>>
    /\ OwnerId \in DOMAIN pending_sessions

(* C14: event handling is atomic with respect to shared state.  While a     *)
(* handler is between its read of the session map and its write to it, no   *)
(* handler of another event touches the entry: the session it read is still *)
(* the session stored for its chat.                                         *)
C14_ReadStillCurrent ==
    \A t \in suspended :
        /\ ChatId(t.event) \in DOMAIN pending_sessions
        /\ pending_sessions[ChatId(t.event)] = t.read

(* C15: sink failure isolation.  For an event that reaches rule matching    *)
(* and whose text matches n rules, exactly n append attempts are made, the  *)
(* i-th for the i-th matched rule in definition order, whichever of them    *)
(* fail; and the state left by a failed append is one in which the handler  *)
(* takes further events.                                                    *)
C15_SinkIsolation ==
    (path = "logged") =>
        LET sel == Selected(rules, Some(ChatId(ev)), ev.text)
        IN  /\ sel # <<>>
            /\ Len(appended) = Len(sel)
            /\ \A i \in 1..Len(sel) :
                /\ appended[i].record.label = sel[i].label
                /\ appended[i].record.excluded_keywords = sel[i].exclude
                /\ appended[i].record.message_text = ev.text
            /\ ENABLED Next

\* the append for the first of two matched rules has failed and the one
\* for the second has been made and has succeeded
C15_Witness ==
    /\ path = "logged"
    /\ Len(appended) = 2
    /\ ~appended[1].ok /\ appended[2].ok
    /\ appended[1].record.label # appended[2].record.label

\* a rule with a non-empty label and at least one include keyword
ValidRule(r) ==
    /\ r.label # <<>>
    /\ (r.include_all # <<>> \/ r.include_any # <<>>)

(* C16: rule validity.  In every state reached after loading the rule file  *)
(* and handling any sequence of events, every rule of the rule set has a    *)
(* non-empty label and at least one keyword in include_all or include_any.  *)
C16_RuleValidity == \A i \in 1..Len(rules) : ValidRule(rules[i])

\* the rule set holds two loaded rules and one authored rule
C16_Witness ==
    /\ added = 1
    /\ Len(rules) = 3
    /\ SubSeq(rules, 1, 2) = load_rules(JsonFile(<<E_deal, E_any>>)).rules
    /\ rules[3].chat_ids # None

\* the union of the scopes of the rules that declare one
ScopeUnion(R) ==
    UNION {Val(R[i].chat_ids) : i \in {j \in 1..Len(R) : R[j].chat_ids # None}}

(* C17: chat-scope cache consistency.  After any sequence of RuleSet        *)
(* construction, add_rule and replace, the cached chat-id set is the union  *)
(* of the scope_chat_ids of the rules of the set that declare a scope.      *)
C17_CacheConsistency == chat_cache = ScopeUnion(rules)

\* add_rule has just added a scoped rule to a set that held a rule with
\* another scope and a rule without scope
C17_Witness ==
    /\ call.fn = "add_rule"
    /\ Len(rules) = 3
    /\ rules[3] = call.rule
    /\ call.rule.chat_ids = Some({GroupChat})
    /\ chat_cache = {OwnerId, GroupChat}
    /\ \E i \in 1..2 : rules[i].chat_ids = None

(* C18: every emitted record comes from an event that passed both chat      *)
(* filters: when append attempts were made for the event, its chat id is in *)
(* the manual allow-list if one is configured and in the chat-scope cache   *)
(* if the cache is not empty; an event failing either filter leaves no      *)
(* attempt.                                                                 *)
C18_FiltersPassed ==
    appended # <<>> =>
        /\ (settings.manual_chat_filter # None =>
                ChatId(ev) \in Val(settings.manual_chat_filter))
        /\ (chat_cache # {} => ChatId(ev) \in chat_cache)

\* a message is logged with an allow-list configured and a non-empty cache
C18_Witness ==
    /\ path = "logged"
    /\ appended # <<>>
    /\ settings.manual_chat_filter # None
    /\ chat_cache # {}
    /\ ChatId(ev) \in Val(settings.manual_chat_filter) \cap chat_cache

\* the labels of a sequence of rules, in order
Labels(q) == [i \in 1..Len(q) |-> q[i].label]

\* the rule set read back from the file that save_rules writes for R
Reloaded(R) == load_rules(save_rules(R))

Trimmed(T) ==
    LET solid == {i \in 1..Len(T) : T[i] \notin Whitespace}
    IN  IF solid = {} THEN <<>> ELSE SubSeq(T, SetMin(solid), SetMax(solid))

\* the maximal stretches of S free of separator characters, as <<first, last>>
Fields(S) ==
    {f \in (1..Len(S)) \X (1..Len(S)) :
        /\ f[1] <= f[2]
        /\ \A k \in f[1]..f[2] : S[k] \notin Separators
        /\ (f[1] = 1 \/ S[f[1] - 1] \in Separators)
        /\ (f[2] = Len(S) \/ S[f[2] + 1] \in Separators)}

\* the trimmed non-empty fields of S, from left to right
FieldList(S) ==
    LET kept == {f \in Fields(S) : Trimmed(SubSeq(S, f[1], f[2])) # <<>>}
        nth(n) == CHOOSE f \in kept : Cardinality({g \in kept : g[1] < f[1]}) = n - 1
    IN  [n \in 1..Cardinality(kept) |-> Trimmed(SubSeq(S, nth(n)[1], nth(n)[2]))]

\* "-", "skip" or "none" in any letter case
IsEmptyWord(S) == \E w \in EmptyWords : SameWord(S, w)

(* C20: keyword-list parsing.  The result is the empty list when the        *)
(* trimmed input is empty or is "-", "skip" or "none" in any letter case;   *)
(* otherwise it is the sequence of the parts of the trimmed input between   *)
(* runs of comma, semicolon and newline characters, each part trimmed,      *)
(* empty parts dropped, order and duplicates kept.                          *)
C20_ParseKeywords ==
    call.fn = "_parse_keywords" =>
        LET S == Trimmed(call.raw)
        IN  call.result = IF S = <<>> \/ IsEmptyWord(S) THEN <<>> ELSE FieldList(S)

\* "a, b;c<newline>d" has been parsed to [a, b, c, d]
C20_Witness ==
    /\ call.fn = "_parse_keywords"
    /\ call.raw = <<"a",","," ","b",";","c","\n","d">>
    /\ call.result = << <<"a">>, <<"b">>, <<"c">>, <<"d">> >>

-----------------------------------------------------------------------------
\* the keywords of q that are case-insensitive substrings of T, in q's order
PresentIn(q, T) == Pick(q, {j \in 1..Len(q) : CISubstring(q[j], T)})

(* C21: the keyword columns of a log record.  For every record emitted for  *)
(* rule r and text T, matched_keywords is exactly the keywords of           *)
(* r.include_all followed by those of r.include_any that are                *)
(* case-insensitive substrings of T, in that order: every include_all       *)
(* keyword, and every include_any keyword present in T, not only the first; *)
(* excluded_keywords is r's configured exclude list.                        *)
C21_MatchedKeywords ==
    (path = "logged") =>
        LET T == ev.text
            sel == Selected(rules, Some(ChatId(ev)), T)
        IN  /\ Len(appended) = Len(sel)
            /\ \A i \in 1..Len(sel) :
                LET r == sel[i]
                    rec == appended[i].record
                IN  /\ rec.matched_keywords =
                           PresentIn(r.include_all, T) \o PresentIn(r.include_any, T)
                    /\ SubSeq(rec.matched_keywords, 1, Len(r.include_all)) = r.include_all
                    /\ \A j \in 1..Len(r.include_any) :
                           CISubstring(r.include_any[j], T)
                               => Occurs(r.include_any[j], rec.matched_keywords)
                    /\ rec.excluded_keywords = r.exclude

\* a record whose rule has two include_any keywords, both present in the
\* text and both reported, the second one after the first
C21_Witness ==
    /\ path = "logged"
    /\ \E i \in 1..Len(appended) :
        \E j \in 1..Len(rules) :
            /\ rules[j].label = appended[i].record.label
            /\ Len(rules[j].include_any) = 2
            /\ rules[j].include_any[1] # rules[j].include_any[2]
            /\ appended[i].record.matched_keywords = rules[j].include_any

-----------------------------------------------------------------------------
IsObject(x) == x.t = "dict"
IsArray(x) == x.t = "list"

\* text with at least one character that is not whitespace
NonBlank(s) == \E i \in 1..Len(s) : s[i] \notin Whitespace

\* the entry names itself: a non-blank string, or a number, under "label"
\* or "name"
HasLabel(x) ==
    \E k \in {"label", "name"} \cap Keys(x) :
        \/ get(x, k).t = "str" /\ NonBlank(get(x, k).s)
        \/ get(x, k).t = "int" /\ get(x, k).n # 0

\* the entry holds an include keyword: a non-empty string or array under
\* one of the include keys
HasIncludeKeyword(x) ==
    \E k \in {"include_all", "include", "include_any"} \cap Keys(x) :
        \/ get(x, k).t = "str" /\ get(x, k).s # <<>>
        \/ get(x, k).t = "list" /\ get(x, k).items # <<>>

\* an integer, written as a number or as a string of decimal digits
IsInteger(x) ==
    \/ x.t = "int"
    \/ x.t = "str" /\ NonBlank(x.s)
       /\ \A i \in 1..Len(x.s) : x.s[i] \in Whitespace \/ IsDigit(x.s[i])

HasNonIntegerChat(x) ==
    /\ IsArray(get(x, "chats"))
    /\ \E i \in 1..Len(get(x, "chats").items) : ~IsInteger(get(x, "chats").items[i])

WrongEntry(x) ==
    \/ ~IsObject(x)
    \/ IsObject(x) /\ (~HasLabel(x) \/ ~HasIncludeKeyword(x) \/ HasNonIntegerChat(x))

\* the array of entries of a document of one of the two accepted shapes
EntriesOf(doc) == IF IsArray(doc) THEN doc.items ELSE get(doc, "rules").items

RightTopLevel(doc) ==
    \/ IsArray(doc)
    \/ IsObject(doc) /\ IsArray(get(doc, "rules"))

WrongShape(doc) ==
    \/ ~RightTopLevel(doc)
    \/ RightTopLevel(doc)
       /\ \E i \in 1..Len(EntriesOf(doc)) : WrongEntry(EntriesOf(doc)[i])

(* C22: loading the rule file.  A missing file and a file whose content is  *)
(* empty or whitespace only give an empty rule set; malformed JSON and      *)
(* every wrong schema shape (a top level that is neither an object with a   *)
(* `rules` array nor a bare array, a `rules` value that is not an array, an *)
(* entry that is not an object, an entry without label, an entry without    *)
(* any include keyword, a non-integer chat id) make load_rules raise: never *)
(* an empty or partially loaded rule set.                                   *)
C22_LoadFailures ==
    (call.fn = "load_rules") =>
        LET file == call.file
            result == call.result
        IN  /\ (~file.exists \/ ~NonBlank(file.raw_text))
                => result.ok /\ result.rules = <<>>
            /\ (file.exists /\ NonBlank(file.raw_text) /\ file.decoded = None)
                => ~result.ok
            /\ (file.exists /\ NonBlank(file.raw_text) /\ file.decoded # None
                /\ WrongShape(Val(file.decoded)))
                => ~result.ok

-----------------------------------------------------------------------------
\* event e is not the owner writing in chat c
Foreign(e, c) == ~e.out \/ ChatId(e) # c

(* C23: only the owner's messages in the origin chat drive a session.  An   *)
(* event that is not outgoing, or that is in another chat than c, leaves    *)
(* the session of origin chat c as it is: it does not create one, and an    *)
(* existing one keeps its step and all its fields; and it adds no rule.     *)
(* Holding for every step, this holds across any number of such events.     *)
C23_Step ==
    LET e == ev'
    IN  \A c \in DOMAIN pending_sessions \cup DOMAIN pending_sessions' :
            Foreign(e, c) =>
                /\ c \in DOMAIN pending_sessions <=> c \in DOMAIN pending_sessions'
                /\ c \in DOMAIN pending_sessions
                       => pending_sessions'[c] = pending_sessions[c]
                /\ RuleStoreUnchanged

C23_ForeignEventsKeepSession == [][C23_Step]_vars

\* a session waiting at its last step has seen somebody else's "!cancel"
\* arrive in its own chat, and is still there
C23_Witness ==
    /\ OwnerId \in DOMAIN pending_sessions
    /\ pending_sessions[OwnerId].step = "exclude"
    /\ ~ev.out /\ ChatId(ev) = OwnerId /\ IsCancelCommand(ev)
    /\ session = Some(pending_sessions[OwnerId])

-----------------------------------------------------------------------------
\* an owner message that the session of its chat takes as its exclude input
AtStepExclude(e) ==
    /\ OwnerInput(e)
    /\ ChatId(e) \in DOMAIN pending_sessions
    /\ pending_sessions[ChatId(e)].step = "exclude"

(* C24: the rule set and the rule file change only at finalization.  The    *)
(* start command, the cancel command, the steps label, include_all and      *)
(* include_any, and every event that goes through filtering and rule        *)
(* matching leave the in-memory rule set, its chat-scope cache and the rule *)
(* file as they are; only an owner message handled at step exclude changes  *)
(* them, and what it does to the rule set is add one rule at the end.       *)
C24_Step ==
    LET e == ev'
    IN  /\ ~AtStepExclude(e) => RuleStoreUnchanged
        /\ AtStepExclude(e) =>
               /\ Len(rules') = Len(rules) + 1
               /\ SubSeq(rules', 1, Len(rules)) = rules

C24_StoreChangesOnlyAtExclude == [][C24_Step]_vars

\* the step include_any has been taken with two rules in memory, in the
\* cache and in the file
C24_Witness ==
    /\ path = "include_any"
    /\ Len(rules) = 2
    /\ rule_file.kind = "json" /\ Len(rule_file.entries) = 2
    /\ chat_cache # {}

-----------------------------------------------------------------------------
\* an authoring session has completed: its rule is the last of the rule set
\* and the rule file holds the rule set
SessionCompleted ==
    /\ added > 0
    /\ load_rules(rule_file).ok
    /\ load_rules(rule_file).rules = rules

(* C25: a rule created by a completed authoring session takes effect        *)
(* without a restart.  From the completion on the target chat is in the     *)
(* chat-scope cache, and every later event in the target chat that passes   *)
(* the manual allow-list and the two suppression flags and whose text       *)
(* satisfies the new rule's keyword conditions yields a log record carrying *)
(* the new rule's label.                                                    *)
C25_TakesEffect ==
    SessionCompleted =>
        LET r == rules[Len(rules)]
        IN  \A target \in Val(r.chat_ids) :
                /\ target \in chat_cache
                /\ (/\ path # "exclude"
                    /\ ev.text # <<>> /\ ChatId(ev) = target
                    /\ InManual(target)
                    /\ ~(settings.ignore_self_messages /\ ev.out)
                    /\ ~(settings.ignore_bot_messages /\ ev.bot)
                    /\ KeywordsHold(r, ev.text))
                   => \E j \in 1..Len(appended) : appended[j].record.label = r.label

-----------------------------------------------------------------------------
\* session s has contributed its rule: a rule has been added in this run and
\* the last rule of the rule set is the one built from the fields of s
Contributed(s) ==
    /\ added > 0 /\ rules # <<>>
    /\ s.step = "exclude"
    /\ LET r == rules[Len(rules)]
       IN  /\ Some(r.label) = s.label
           /\ r.include_all = s.include_all /\ r.include_any = s.include_any
           /\ r.exclude = s.exclude
           /\ r.chat_ids = Some({s.target_chat_id})

(* C26: each authoring session adds at most one rule.  Once a session has   *)
(* contributed a rule, no further message of the owner makes it contribute  *)
(* another one to the in-memory rule set or to the rule file, also when the *)
(* write of the rule file has failed at the exclude step and the owner      *)
(* sends the exclude input again.                                           *)
C26_Step ==
    LET e == ev'
        c == ChatId(e)
    IN  (/\ OwnerMessage(e)
         /\ c \in DOMAIN pending_sessions
         /\ Contributed(pending_sessions[c]))
        => /\ Len(rules') = Len(rules)
           /\ rule_file'.kind = "json" => Len(rule_file'.entries) <= Len(rules)

C26_AtMostOneRule == [][C26_Step]_vars

-----------------------------------------------------------------------------
Steps == {"label", "include_all", "include_any", "exclude"}

(* C27: session well-formedness.  In every reachable state every entry of   *)
(* the session map is keyed by the chat id of a self-conversation (the      *)
(* chat is the requester's own) that equals the session's origin_chat_id;   *)
(* its step is one of label, include_all, include_any, exclude; its label   *)
(* is set and non-empty whenever the step is past label; and at step        *)
(* exclude at least one of its include_all and include_any lists is         *)
(* non-empty.                                                               *)
C27_SessionWellFormed ==
    \A c \in DOMAIN pending_sessions :
        LET s == pending_sessions[c]
        IN  /\ c = s.origin_chat_id
            /\ c = s.requested_by
            /\ s.step \in Steps
            /\ s.step # "label" => s.label # None /\ Val(s.label) # <<>>
            /\ s.step = "exclude" => s.include_all # <<>> \/ s.include_any # <<>>

\* a session has just reached step exclude with keywords in include_any
\* only
C27_Witness ==
    /\ OwnerId \in DOMAIN pending_sessions
    /\ pending_sessions[OwnerId].step = "exclude"
    /\ pending_sessions[OwnerId].include_all = <<>>
    /\ pending_sessions[OwnerId].include_any # <<>>
    /\ path = "include_any"

====
